---- MODULE Spec2Model ----
(***************************************************************************)
(* Model of fexolm/max_clique (src/src/graph.rs).                          *)
(*                                                                         *)
(* Graph::read builds the adjacency map from the "e <from> <to>" lines of  *)
(* the input; max_clique_heuristic seeds the best-known clique; the exact  *)
(* search max_clique_impl runs as rayon tasks that share the best-known    *)
(* clique behind an RwLock; get_max_clique returns its final content.      *)
(***************************************************************************)
EXTENDS Integers, Sequences, FiniteSets, TLC

\* ------------------------------------------------------------------ bounds

\* Vertex identifiers of the enumerated short inputs are 1..MaxVertex.
MaxVertex == 3
\* The enumerated short inputs have at most MaxLines edge lines.
MaxLines == 2
\* The hashers of a run are seeded from 0..MaxSeed.
MaxSeed == 1
\* Number of worker threads of the rayon pool.
NumThreads == 2
\* Number of nested clique_heuristic calls at which the stack is exhausted.
StackLimit == 7

\* ------------------------------------------------------------- Vec helpers

\* Vec::last
Last(s) == s[Len(s)]

\* Vec::pop
Pop(s) == SubSeq(s, 1, Len(s) - 1)

\* ------------------------------------------------------------------ inputs

\* One parsed line "e from to" (parse_line returns the pair).
SmallLines == (1..MaxVertex) \X (1..MaxVertex)

RECURSIVE SeqsUpTo(_, _)
SeqsUpTo(S, n) ==
    IF n = 0 THEN {<<>>}
    ELSE LET shorter == SeqsUpTo(S, n - 1)
         IN  shorter \cup {Append(s, x) : s \in {t \in shorter : Len(t) = n - 1}, x \in S}

\* Every input of at most MaxLines edge lines over the vertices 1..MaxVertex,
\* lines with equal endpoints and repeated lines included.
SmallFiles == SeqsUpTo(SmallLines, MaxLines)

\* The complete graph on four vertices.
K4File == << <<1, 2>>, <<1, 3>>, <<1, 4>>, <<2, 3>>, <<2, 4>>, <<3, 4>> >>

\* A 5-clique {16..20}; every clique vertex 15+i also has a private hub
\* 10+i, and each of the ten vertices 1..10 is joined to two clique vertices
\* and to their two hubs.  Every vertex has degree >= 4.
CliqueFile ==
    << <<16, 17>>, <<16, 18>>, <<16, 19>>, <<16, 20>>, <<17, 18>>,
       <<17, 19>>, <<17, 20>>, <<18, 19>>, <<18, 20>>, <<19, 20>>,
       <<11, 16>>, <<12, 17>>, <<13, 18>>, <<14, 19>>, <<15, 20>>,
       <<1, 16>>, <<1, 17>>, <<1, 11>>, <<1, 12>>,
       <<2, 16>>, <<2, 18>>, <<2, 11>>, <<2, 13>>,
       <<3, 16>>, <<3, 19>>, <<3, 11>>, <<3, 14>>,
       <<4, 16>>, <<4, 20>>, <<4, 11>>, <<4, 15>>,
       <<5, 17>>, <<5, 18>>, <<5, 12>>, <<5, 13>>,
       <<6, 17>>, <<6, 19>>, <<6, 12>>, <<6, 14>>,
       <<7, 17>>, <<7, 20>>, <<7, 12>>, <<7, 15>>,
       <<8, 18>>, <<8, 19>>, <<8, 13>>, <<8, 14>>,
       <<9, 18>>, <<9, 20>>, <<9, 13>>, <<9, 15>>,
       <<10, 19>>, <<10, 20>>, <<10, 14>>, <<10, 15>> >>

\* The cycle on five vertices.
CycleFile == << <<1, 2>>, <<2, 3>>, <<3, 4>>, <<4, 5>>, <<5, 1>> >>

\* A triangle {1, 2, 3} with a pendant path 3 - 4 - 5 and a repeated line.
KiteFile == << <<1, 2>>, <<2, 3>>, <<3, 1>>, <<3, 4>>, <<4, 5>>, <<2, 1>> >>

\* A triangle {1, 2, 3} and, apart from it, the path 4 - 6 - 5.
TriangleFile == << <<6, 4>>, <<6, 5>>, <<1, 2>>, <<2, 3>>, <<1, 3>> >>

Files == SmallFiles \cup {K4File, CycleFile, CliqueFile, TriangleFile}

\* The inputs on which clique_heuristic is called with any arguments.
HeuristicFiles == SmallFiles \cup {K4File, KiteFile, TriangleFile}

\* The inputs whose every vertex subset is handed to greedy_coloring.
ColoringFiles == SmallFiles \cup {K4File, CycleFile, KiteFile}

\* --------------------------------------------------------------- variables

VARIABLES
    phase,           \* "read", "heuristic", "search", "done", "overflow"
    reader,          \* the lines of the input file not yet read
    hasher,          \* seeds of the run's hashers: <<of HashSet, of HashMap>>
    adj_list,        \* Graph.adj_list: vertex -> set of neighbours
    data,            \* MaxCliqueData: [max_clique, current_clique]
    queue,           \* the nodes still in max_clique_heuristic's BinaryHeap
    hpc,             \* position of the heuristic: "loop", "call", "ret"
    hcalls,          \* `vertexes` of the nested clique_heuristic calls
    heuristic_best,  \* the length printed as "Heuristic best"
    max_clique,      \* the Vec behind Arc<RwLock<..>>
    readers,         \* threads holding a read guard of the RwLock
    writer,          \* threads holding the write guard (at most one)
    spawned,         \* per thread: the closures it spawned, not yet started
    thread,          \* per worker thread: the max_clique_impl call it runs
    result,          \* the value get_max_clique returned
    previous,        \* <<length returned by the previous call>>, if any
    colored          \* the last subset handed to greedy_coloring, its result

vars == <<phase, reader, hasher, adj_list, data, queue, hpc, hcalls, heuristic_best,
          max_clique, readers, writer, spawned, thread, result, previous,
          colored>>

Threads == 1..NumThreads

Seeds == 0..MaxSeed

Idle == [pc |-> "idle", current_clique |-> <<>>, vertexes |-> {},
         candidates |-> <<>>]

\* ------------------------------------------------------------------- Graph

\* adj_list.keys()
Keys == DOMAIN adj_list

\* get_entry!(map, key).insert(value)
InsertEntry(map, key, value) ==
    IF key \in DOMAIN map
    THEN [map EXCEPT ![key] = @ \cup {value}]
    ELSE map @@ (key :> {value})

\* Graph::neighbours
neighbours(node) == adj_list[node]

\* Graph::degree
degree(node) == Cardinality(neighbours(node)) % 65536

\* Graph::subgraph_neighbours
subgraph_neighbours(subgraph, node) == neighbours(node) \cap subgraph

\* -------------------------------------------------------------------- Init

Init ==
    /\ phase = "read"
    /\ reader \in Files
    /\ hasher \in Seeds \X Seeds
    /\ adj_list = <<>>
    /\ data = [max_clique |-> <<>>, current_clique |-> <<>>]
    /\ queue = {}
    /\ hpc = "loop"
    /\ hcalls = <<>>
    /\ heuristic_best = 0
    /\ max_clique = <<>>
    /\ readers = {}
    /\ writer = {}
    /\ spawned = [t \in Threads |-> <<>>]
    /\ thread = [t \in Threads |-> Idle]
    /\ result = <<>>
    /\ previous = <<>>
    /\ colored = [vertexes |-> {}, coloring |-> <<>>]

\* ------------------------------------------------------------- Graph::read

\* One turn of the while loop of Graph::read: parse_line returns the next
\* edge line and both endpoints enter each other's neighbour set.
ReadLine ==
    /\ phase = "read"
    /\ reader # <<>>
    /\ LET from == Head(reader)[1]
           to == Head(reader)[2]
       IN  adj_list' = InsertEntry(InsertEntry(adj_list, from, to), to, from)
    /\ reader' = Tail(reader)
    /\ UNCHANGED <<phase, hasher, data, queue, hpc, hcalls, heuristic_best,
                   max_clique, readers, writer, spawned, thread, result,
                   previous, colored>>

\* parse_line returns None: Graph::read returns the graph, get_max_clique
\* creates `data` and max_clique_heuristic builds its BinaryHeap.
EndOfFile ==
    /\ phase = "read"
    /\ reader = <<>>
    /\ phase' = "heuristic"
    /\ data' = [max_clique |-> <<>>, current_clique |-> <<>>]
    /\ queue' = Keys
    /\ hpc' = "loop"
    /\ UNCHANGED <<reader, hasher, adj_list, hcalls, heuristic_best, max_clique,
                   readers, writer, spawned, thread, result,
                   previous, colored>>

\* --------------------------------------------------------------- heuristic

\* BinaryHeap::pop on (degree, node) pairs: the greatest pair.
HeapTop(q) ==
    CHOOSE n \in q : \A m \in q :
        \/ degree(m) < degree(n)
        \/ degree(m) = degree(n) /\ m <= n

\* The candidates max_clique_heuristic hands to clique_heuristic for a seed.
SeedCandidates(node) ==
    {n \in neighbours(node) : degree(n) > Len(data.max_clique) % 65536}

\* The vertices max_by_key can return: iteration order of a HashSet is
\* unspecified, so any vertex with the greatest count may be the last one.
BestVertexes(vertexes) ==
    {v \in vertexes : \A u \in vertexes :
        Cardinality(subgraph_neighbours(vertexes, u))
            <= Cardinality(subgraph_neighbours(vertexes, v))}

\* The degree test the wrong way round.
HeuristicNeighboursBelow(vertexes, best_vertex) ==
    {n \in subgraph_neighbours(vertexes, best_vertex) :
        degree(n) < Len(data.max_clique) % 65536}

\* The `neighbours` set clique_heuristic recurses on.
HeuristicNeighbours(vertexes, best_vertex) ==
    {n \in subgraph_neighbours(vertexes, best_vertex) :
        degree(n) >= Len(data.max_clique) % 65536}

\* max_clique_heuristic, one turn of `while let Some((_, node)) = queue.pop()`.
HeurPop ==
    /\ phase = "heuristic"
    /\ hpc = "loop"
    /\ queue # {}
    /\ LET node == HeapTop(queue)
       IN  /\ queue' = queue \ {node}
           /\ IF degree(node) > Len(data.max_clique) % 65536
              THEN /\ data' = [data EXCEPT !.current_clique = Append(@, node)]
                   /\ hcalls' = <<SeedCandidates(node)>>
                   /\ hpc' = "call"
              ELSE UNCHANGED <<data, hcalls, hpc>>
    /\ UNCHANGED <<phase, reader, hasher, adj_list, heuristic_best, max_clique,
                   readers, writer, spawned, thread, result,
                   previous, colored>>

\* clique_heuristic entered with an empty candidate set.
HeurLeaf ==
    /\ phase = "heuristic"
    /\ hpc = "call"
    /\ Last(hcalls) = {}
    /\ data' = IF Len(data.current_clique) > Len(data.max_clique)
               THEN [data EXCEPT !.max_clique = data.current_clique]
               ELSE data
    /\ hcalls' = Pop(hcalls)
    /\ hpc' = "ret"
    /\ UNCHANGED <<phase, reader, hasher, adj_list, queue, heuristic_best, max_clique,
                   readers, writer, spawned, thread, result,
                   previous, colored>>

\* clique_heuristic entered with candidates: it picks best_vertex, pushes it
\* and calls itself on the filtered neighbours.  The call needs a stack frame.
HeurDescend ==
    /\ phase = "heuristic"
    /\ hpc = "call"
    /\ Last(hcalls) # {}
    /\ \E best_vertex \in BestVertexes(Last(hcalls)) :
          IF Len(hcalls) >= StackLimit
          THEN /\ phase' = "overflow"
               /\ UNCHANGED <<data, hcalls>>
          ELSE /\ data' = [data EXCEPT !.current_clique = Append(@, best_vertex)]
               /\ hcalls' = Append(hcalls,
                                   HeuristicNeighbours(Last(hcalls), best_vertex))
               /\ phase' = phase
    /\ UNCHANGED <<reader, hasher, adj_list, queue, hpc, heuristic_best, max_clique,
                   readers, writer, spawned, thread, result,
                   previous, colored>>

\* A call has returned: the caller pops current_clique and returns in turn
\* (clique_heuristic), or goes back to its loop (max_clique_heuristic).
HeurReturn ==
    /\ phase = "heuristic"
    /\ hpc = "ret"
    /\ data' = [data EXCEPT !.current_clique = Pop(@)]
    /\ IF hcalls # <<>>
       THEN /\ hcalls' = Pop(hcalls)
            /\ hpc' = hpc
       ELSE /\ hpc' = "loop"
            /\ hcalls' = hcalls
    /\ UNCHANGED <<phase, reader, hasher, adj_list, queue, heuristic_best, max_clique,
                   readers, writer, spawned, thread, result,
                   previous, colored>>

\* --------------------------------------------------------- greedy_coloring

\* `used` is an array of NumBlocks words of BlockBits bits, one bit per color.
NumBlocks == 16
BlockBits == 64

\* Rank of v in the iteration order of a hash table whose hasher was seeded
\* with `seed` (std's RandomState draws its keys at random).
HashKey(seed, v) ==
    IF seed = 0 THEN v
    ELSE IF seed = 1 THEN 0 - v
    ELSE (seed * v) % (seed + 3)

IterBefore(seed, v, u) ==
    \/ HashKey(seed, v) < HashKey(seed, u)
    \/ HashKey(seed, v) = HashKey(seed, u) /\ v <= u

\* `powers`: the vertices in iteration order, sorted by decreasing number of
\* neighbours inside `vertexes`.
RECURSIVE Powers(_, _, _)
Powers(rest, vertexes, seed) ==
    IF rest = {} THEN <<>>
    ELSE LET key(v) == 0 - Cardinality(subgraph_neighbours(vertexes, v))
             first == CHOOSE v \in rest : \A u \in rest :
                          \/ key(v) < key(u)
                          \/ key(v) = key(u) /\ IterBefore(seed, v, u)
         IN  <<first>> \o Powers(rest \ {first}, vertexes, seed)

\* The closure use_col: sets bit c % BlockBits of word c / BlockBits.
use_col(used, c) == used \cup {<<c \div BlockBits, c % BlockBits>>}

\* min_col without the offset of the bit inside the word: the first color of
\* the first word that is not all ones.
min_col_word(used) ==
    LET full(i) == \A b \in 0..(BlockBits - 1) : <<i, b>> \in used
        i == CHOOSE j \in 0..(NumBlocks - 1) :
                 /\ ~full(j)
                 /\ \A k \in 0..(j - 1) : full(k)
    IN  BlockBits * i

\* The closure min_col: the lowest clear bit of the first word that is not
\* all ones.
min_col(used) ==
    LET full(i) == \A b \in 0..(BlockBits - 1) : <<i, b>> \in used
        i == CHOOSE j \in 0..(NumBlocks - 1) :
                 /\ ~full(j)
                 /\ \A k \in 0..(j - 1) : full(k)
        b == CHOOSE z \in 0..(BlockBits - 1) :
                 /\ <<i, z>> \notin used
                 /\ \A y \in 0..(z - 1) : <<i, y>> \in used
    IN  BlockBits * i + b

\* The inner loop over the neighbours left out: no bit is set.
UsedColorsNone(res, vertexes, node) == {}

\* The bits set after the inner loop over the neighbours of `node`.
UsedColors(res, vertexes, node) ==
    UNION {use_col({}, res[n]) :
              n \in subgraph_neighbours(vertexes, node) \cap DOMAIN res}

\* The loop `for (node, neighbours) in powers`.
RECURSIVE ColorNodes(_, _, _)
ColorNodes(powers, vertexes, res) ==
    IF powers = <<>> THEN res
    ELSE LET node == Head(powers)
             color == min_col(UsedColors(res, vertexes, node))
         IN  ColorNodes(Tail(powers), vertexes,
                        [n \in DOMAIN res \cup {node} |->
                            IF n = node THEN color ELSE res[n]])

\* Graph::greedy_coloring
greedy_coloring(vertexes, seed) ==
    ColorNodes(Powers(vertexes, vertexes, seed), vertexes, <<>>)

\* --------------------------------------------------------- max_clique_impl

\* `candidates`: the (vertex, color) pairs of the coloring in iteration
\* order, sorted by decreasing color.
RECURSIVE SortCandidates(_, _, _)
SortCandidates(rest, coloring, seed) ==
    IF rest = {} THEN <<>>
    ELSE LET first == CHOOSE v \in rest : \A u \in rest :
                          \/ coloring[v] > coloring[u]
                          \/ coloring[v] = coloring[u] /\ IterBefore(seed, v, u)
         IN  <<<<first, coloring[first]>>>>
                 \o SortCandidates(rest \ {first}, coloring, seed)

\* The candidate vector a call on `vertexes` loops over.
Candidates(vertexes) ==
    SortCandidates(vertexes, greedy_coloring(vertexes, hasher[1]), hasher[2])

\* The bound check without the vertex v itself.
PrunedLoose(current_clique, c, best_len) == Len(current_clique) + c <= best_len

\* The bound check of the candidate loop.
Pruned(current_clique, c, best_len) == Len(current_clique) + c + 1 <= best_len

\* The child's candidates without the intersection with v's neighbours.
ChildVertexesAll(vertexes, v) == vertexes \ {v}

\* The child's candidates taken from the vertices v is not adjacent to.
ChildVertexesNon(vertexes, v) == (vertexes \ {v}) \ neighbours(v)

\* The child's candidates with v left among them.
ChildVertexesSelf(vertexes, v) == subgraph_neighbours(vertexes, v) \cup {v}

\* The candidate set of the task spawned for v.
ChildVertexes(vertexes, v) == subgraph_neighbours(vertexes \ {v}, v)

\* RwLock::read returns once no thread holds the write guard.
CanRead == writer = {}

\* RwLock::write returns once no thread holds any guard.
CanWrite == writer = {} /\ readers = {}

\* A guard bound to a variable that lives to the end of the function.
KeepGuard(guards, t) == guards

\* A guard is a temporary: it is dropped at the end of its statement.
DropGuard(guards, t) == guards \ {t}

\* The comparison the wrong way round.
LongerReversed(current_clique, len) == Len(current_clique) < len

\* The test that guards the write of the best-known clique.
Longer(current_clique, len) == Len(current_clique) > len

\* s.spawn with the closures sharing one vertex set: the removal of the
\* vertex of the new closure shows in the closures spawned before it.
SpawnShared(tasks, task) ==
    Append([i \in DOMAIN tasks |->
               [tasks[i] EXCEPT !.neighbours = @ \ {task.v}]], task)

\* s.spawn: the closure, which owns its clique and its vertex set, joins the
\* closures the thread has spawned.
Spawn(tasks, task) == Append(tasks, task)

\* get_max_clique after the heuristic: the result of the heuristic goes
\* behind the lock and the thread that runs the scope body calls
\* max_clique_impl on all vertices with an empty clique.
StartSearch ==
    /\ phase = "heuristic"
    /\ hpc = "loop"
    /\ queue = {}
    /\ heuristic_best' = Len(data.max_clique)
    /\ max_clique' = data.max_clique
    /\ phase' = "search"
    /\ thread' = [thread EXCEPT ![1] =
                     [pc |-> "entry", current_clique |-> <<>>,
                      vertexes |-> Keys, candidates |-> <<>>]]
    /\ UNCHANGED <<reader, hasher, adj_list, data, queue, hpc, hcalls, readers, writer,
                   spawned, result,
                   previous, colored>>

\* The call a thread makes when it starts the closure `task`: it pushes v
\* and calls max_clique_impl.
TaskCall(task) ==
    [pc |-> "entry", current_clique |-> Append(task.cur_clique, task.v),
     vertexes |-> task.neighbours, candidates |-> <<>>]

\* A free worker thread starts the closure it spawned last (rayon::scope
\* runs a thread's own closures in LIFO order).
RunTask(t) ==
    /\ phase = "search"
    /\ thread[t].pc = "idle"
    /\ spawned[t] # <<>>
    /\ thread' = [thread EXCEPT ![t] = TaskCall(Last(spawned[t]))]
    /\ spawned' = [spawned EXCEPT ![t] = Pop(@)]
    /\ UNCHANGED <<phase, reader, hasher, adj_list, data, queue, hpc, hcalls,
                   heuristic_best, max_clique, readers, writer, result,
                   previous, colored>>

\* A free worker thread with nothing of its own steals the oldest closure
\* of another thread.
StealTask(t) ==
    /\ phase = "search"
    /\ thread[t].pc = "idle"
    /\ spawned[t] = <<>>
    /\ \E o \in Threads \ {t} :
          /\ spawned[o] # <<>>
          /\ thread' = [thread EXCEPT ![t] = TaskCall(Head(spawned[o]))]
          /\ spawned' = [spawned EXCEPT ![o] = Tail(@)]
    /\ UNCHANGED <<phase, reader, hasher, adj_list, data, queue, hpc, hcalls,
                   heuristic_best, max_clique, readers, writer, result,
                   previous, colored>>

\* max_clique.read() of `let len = ...`: the thread gets a read guard.
EntryRead(t) ==
    /\ thread[t].pc = "entry"
    /\ CanRead
    /\ readers' = readers \cup {t}
    /\ thread' = [thread EXCEPT ![t].pc = "len"]
    /\ UNCHANGED <<phase, reader, hasher, adj_list, data, queue, hpc, hcalls,
                   heuristic_best, max_clique, writer, spawned, result,
                   previous, colored>>

\* `len` is read and the guard dropped; the clique is not longer than `len`,
\* so the call goes on to color its candidates.
EntryKeep(t) ==
    /\ thread[t].pc = "len"
    /\ ~Longer(thread[t].current_clique, Len(max_clique))
    /\ readers' = DropGuard(readers, t)
    /\ thread' = [thread EXCEPT ![t].pc = "loop",
                                ![t].candidates = Candidates(thread[t].vertexes)]
    /\ UNCHANGED <<phase, reader, hasher, adj_list, data, queue, hpc, hcalls,
                   heuristic_best, max_clique, writer, spawned, result,
                   previous, colored>>

\* `len` is read and the guard dropped; the clique is longer than `len`, so
\* the call goes on to max_clique.write().
EntryLonger(t) ==
    /\ thread[t].pc = "len"
    /\ Longer(thread[t].current_clique, Len(max_clique))
    /\ readers' = DropGuard(readers, t)
    /\ thread' = [thread EXCEPT ![t].pc = "write"]
    /\ UNCHANGED <<phase, reader, hasher, adj_list, data, queue, hpc, hcalls,
                   heuristic_best, max_clique, writer, spawned, result,
                   previous, colored>>

\* max_clique.write(): the thread gets the write guard.
EntryWrite(t) ==
    /\ thread[t].pc = "write"
    /\ CanWrite
    /\ writer' = {t}
    /\ thread' = [thread EXCEPT ![t].pc = "assign"]
    /\ UNCHANGED <<phase, reader, hasher, adj_list, data, queue, hpc, hcalls,
                   heuristic_best, max_clique, readers, spawned, result,
                   previous, colored>>

\* `*guard = current_clique.clone()`, the guard is dropped and the call
\* colors its candidates.
EntryAssign(t) ==
    /\ thread[t].pc = "assign"
    /\ max_clique' = thread[t].current_clique
    /\ writer' = DropGuard(writer, t)
    /\ thread' = [thread EXCEPT ![t].pc = "loop",
                                ![t].candidates = Candidates(thread[t].vertexes)]
    /\ UNCHANGED <<phase, reader, hasher, adj_list, data, queue, hpc, hcalls,
                   heuristic_best, readers, spawned, result,
                   previous, colored>>

\* The candidate loop is over: max_clique_impl returns and the thread is
\* free again.
LoopEnd(t) ==
    /\ thread[t].pc = "loop"
    /\ thread[t].candidates = <<>>
    /\ thread' = [thread EXCEPT ![t] = Idle]
    /\ UNCHANGED <<phase, reader, hasher, adj_list, data, queue, hpc, hcalls,
                   heuristic_best, max_clique, readers, writer, spawned, result,
                   previous, colored>>

\* max_clique.read() of the bound check: the thread gets a read guard.
LoopRead(t) ==
    /\ thread[t].pc = "loop"
    /\ thread[t].candidates # <<>>
    /\ CanRead
    /\ readers' = readers \cup {t}
    /\ thread' = [thread EXCEPT ![t].pc = "check"]
    /\ UNCHANGED <<phase, reader, hasher, adj_list, data, queue, hpc, hcalls,
                   heuristic_best, max_clique, writer, spawned, result,
                   previous, colored>>

\* The bound check holds: the guard is dropped and max_clique_impl returns.
LoopPrune(t) ==
    /\ thread[t].pc = "check"
    /\ Pruned(thread[t].current_clique, Head(thread[t].candidates)[2],
              Len(max_clique))
    /\ readers' = DropGuard(readers, t)
    /\ thread' = [thread EXCEPT ![t] = Idle]
    /\ UNCHANGED <<phase, reader, hasher, adj_list, data, queue, hpc, hcalls,
                   heuristic_best, max_clique, writer, spawned, result,
                   previous, colored>>

\* The bound check fails: the guard is dropped, v leaves `vertexes` and a
\* closure with a copy of the clique, v and v's remaining neighbours is
\* spawned.
LoopSpawn(t) ==
    /\ thread[t].pc = "check"
    /\ ~Pruned(thread[t].current_clique, Head(thread[t].candidates)[2],
               Len(max_clique))
    /\ readers' = DropGuard(readers, t)
    /\ LET v == Head(thread[t].candidates)[1]
       IN  /\ spawned' = [spawned EXCEPT ![t] = Spawn(@,
                   [cur_clique |-> thread[t].current_clique, v |-> v,
                    neighbours |-> ChildVertexes(thread[t].vertexes, v)])]
           /\ thread' = [thread EXCEPT ![t].pc = "loop",
                                       ![t].vertexes = @ \ {v},
                                       ![t].candidates = Tail(@)]
    /\ UNCHANGED <<phase, reader, hasher, adj_list, data, queue, hpc, hcalls,
                   heuristic_best, max_clique, writer, result,
                   previous, colored>>

\* Only the body of the scope is waited for.
BodyComplete == thread[1].pc = "idle"

\* rayon::scope returns once its body and every closure spawned in it
\* have completed.
ScopeComplete ==
    /\ \A t \in Threads : spawned[t] = <<>>
    /\ \A t \in Threads : thread[t].pc = "idle"

\* The scope has returned: get_max_clique clones the best-known clique.
ScopeEnd ==
    /\ phase = "search"
    /\ ScopeComplete
    /\ result' = max_clique
    /\ phase' = "done"
    /\ UNCHANGED <<reader, hasher, adj_list, data, queue, hpc, hcalls, heuristic_best,
                   max_clique, readers, writer, spawned, thread,
                   previous, colored>>

\* -------------------------------------------------------------------- Next

Next ==
    \/ ReadLine
    \/ EndOfFile
    \/ HeurPop
    \/ HeurLeaf
    \/ HeurDescend
    \/ HeurReturn
    \/ StartSearch
    \/ \E t \in Threads : RunTask(t)
    \/ \E t \in Threads : StealTask(t)
    \/ \E t \in Threads : EntryRead(t)
    \/ \E t \in Threads : EntryKeep(t)
    \/ \E t \in Threads : EntryLonger(t)
    \/ \E t \in Threads : EntryWrite(t)
    \/ \E t \in Threads : EntryAssign(t)
    \/ \E t \in Threads : LoopEnd(t)
    \/ \E t \in Threads : LoopRead(t)
    \/ \E t \in Threads : LoopPrune(t)
    \/ \E t \in Threads : LoopSpawn(t)
    \/ ScopeEnd

Spec == Init /\ [][Next]_vars

\* The pool keeps running: a step that can be taken is taken.
SpecFair == Spec /\ WF_vars(Next)

\* ------------------------------------------------- get_max_clique, again

\* The caller calls get_max_clique a second time on the same graph: `data`
\* and the lock-protected Vec are created anew and the hash tables of the
\* second call get new keys.
CallAgain ==
    /\ phase = "done"
    /\ previous = <<>>
    /\ previous' = <<Len(result)>>
    /\ hasher' \in Seeds \X Seeds
    /\ phase' = "heuristic"
    /\ data' = [max_clique |-> <<>>, current_clique |-> <<>>]
    /\ queue' = Keys
    /\ hpc' = "loop"
    /\ hcalls' = <<>>
    /\ heuristic_best' = 0
    /\ max_clique' = <<>>
    /\ result' = <<>>
    /\ UNCHANGED <<reader, adj_list, readers, writer, spawned, thread, colored>>

NextTwice == Next \/ CallAgain

SpecTwice == Init /\ [][NextTwice]_vars

\* ------------------------------------------- greedy_coloring on its own

\* greedy_coloring applied to any subset of the vertices of the graph that
\* Graph::read has built, under any seed of the subset's hasher.
ColorSubset ==
    /\ phase = "read"
    /\ reader = <<>>
    /\ \E vertexes \in SUBSET Keys : \E seed \in Seeds :
          colored' = [vertexes |-> vertexes,
                      coloring |-> greedy_coloring(vertexes, seed)]
    /\ UNCHANGED <<phase, reader, hasher, adj_list, data, queue, hpc, hcalls,
                   heuristic_best, max_clique, readers, writer, spawned,
                   thread, result, previous>>

InitColoring ==
    /\ phase = "read"
    /\ reader \in ColoringFiles
    /\ hasher = <<0, 0>>
    /\ adj_list = <<>>
    /\ data = [max_clique |-> <<>>, current_clique |-> <<>>]
    /\ queue = {}
    /\ hpc = "loop"
    /\ hcalls = <<>>
    /\ heuristic_best = 0
    /\ max_clique = <<>>
    /\ readers = {}
    /\ writer = {}
    /\ spawned = [t \in Threads |-> <<>>]
    /\ thread = [t \in Threads |-> Idle]
    /\ result = <<>>
    /\ previous = <<>>
    /\ colored = [vertexes |-> {}, coloring |-> <<>>]

NextColoring == ReadLine \/ ColorSubset

SpecColoring == InitColoring /\ [][NextColoring]_vars

\* ------------------------------------------ clique_heuristic on its own

\* The vertices of S in increasing order.
RECURSIVE SeqOf(_)
SeqOf(S) ==
    IF S = {} THEN <<>>
    ELSE LET least == CHOOSE x \in S : \A y \in S : x <= y
         IN  <<least>> \o SeqOf(S \ {least})

\* clique_heuristic called on the graph that Graph::read has built, with
\* any set of vertices as `vertexes` and any clique of the graph as the
\* best clique so far.
CallCliqueHeuristic ==
    /\ phase = "read"
    /\ reader = <<>>
    /\ \E vertexes \in SUBSET Keys : \E best \in SUBSET Keys :
          /\ \A u \in best : \A v \in best : u # v => v \in adj_list[u]
          /\ data' = [max_clique |-> SeqOf(best), current_clique |-> <<>>]
          /\ hcalls' = <<vertexes>>
    /\ hpc' = "call"
    /\ phase' = "heuristic"
    /\ UNCHANGED <<reader, hasher, adj_list, queue, heuristic_best, max_clique,
                   readers, writer, spawned, thread, result, previous, colored>>

InitHeuristic ==
    /\ phase = "read"
    /\ reader \in HeuristicFiles
    /\ hasher = <<0, 0>>
    /\ adj_list = <<>>
    /\ data = [max_clique |-> <<>>, current_clique |-> <<>>]
    /\ queue = {}
    /\ hpc = "loop"
    /\ hcalls = <<>>
    /\ heuristic_best = 0
    /\ max_clique = <<>>
    /\ readers = {}
    /\ writer = {}
    /\ spawned = [t \in Threads |-> <<>>]
    /\ thread = [t \in Threads |-> Idle]
    /\ result = <<>>
    /\ previous = <<>>
    /\ colored = [vertexes |-> {}, coloring |-> <<>>]

NextHeuristic ==
    \/ ReadLine
    \/ CallCliqueHeuristic
    \/ HeurLeaf
    \/ HeurDescend
    \/ HeurReturn

SpecHeuristic == InitHeuristic /\ [][NextHeuristic]_vars

\* ------------------------------------------------------------------ claims

\* The entries of s are distinct and pairwise adjacent vertices.
IsClique(s) ==
    \A i \in 1..Len(s) : \A j \in 1..Len(s) :
        i # j => s[i] # s[j] /\ s[i] \in Keys /\ s[j] \in adj_list[s[i]]

Max(a, b) == IF a >= b THEN a ELSE b

\* The size of a largest clique inside `cand`, by exhaustive branching on
\* every vertex: either it is in the clique or it is not.
RECURSIVE CliqueNumber(_)
CliqueNumber(cand) ==
    IF cand = {} THEN 0
    ELSE LET v == CHOOSE x \in cand : TRUE
         IN  Max(1 + CliqueNumber((cand \cap adj_list[v]) \ {v}),
                 CliqueNumber(cand \ {v}))

\* C1: the clique get_max_clique returns is as long as a maximum clique of
\* the graph.
C1_ReturnsMaximum ==
    phase = "done" => Len(result) = CliqueNumber(Keys)

\* C2: the best-known clique (of the heuristic, of the exact search, and
\* the returned one) is a clique of the graph in every state.
C2_BestIsClique ==
    /\ IsClique(data.max_clique)
    /\ IsClique(max_clique)
    /\ IsClique(result)

\* C3: during the exact search the length of the shared best-known clique
\* never decreases.
C3_LengthMonotonic ==
    [][phase = "search" => Len(max_clique') >= Len(max_clique)]_vars

\* C4: whenever a task overwrites the best-known clique, its current clique
\* is strictly longer than the best-known clique held at that moment.
C4_WriteOnlyLonger ==
    [][\A t \in Threads :
          thread[t].pc = "assign" /\ thread'[t].pc # "assign"
              => Len(thread[t].current_clique) > Len(max_clique)]_vars

\* C5: the returned clique is at least as long as the clique of the
\* heuristic.
C5_AtLeastHeuristic ==
    phase = "done" => Len(result) >= heuristic_best

\* C6: two calls of get_max_clique on the same graph return cliques of the
\* same length.
C6_SameLength ==
    phase = "done" /\ previous # <<>> => Len(result) = previous[1]

RECURSIVE Pow2(_)
Pow2(n) == IF n = 0 THEN 1 ELSE 2 * Pow2(n - 1)

\* A bound on the steps left to a call whose candidate loop has k
\* candidates to go, the steps of every closure it may yet spawn included:
\* LoopWork(0) = 1 and LoopWork(k) = 7 + 2 * LoopWork(k - 1).
LoopWork(k) == 8 * Pow2(k) - 7

\* The same bound for a closure that has not started yet.
ClosureWork(task) == 5 + LoopWork(Cardinality(task.neighbours))

\* The same bound for the call a thread is running.
CallWork(call) ==
    CASE call.pc = "idle" -> 0
      [] call.pc = "entry" -> 4 + LoopWork(Cardinality(call.vertexes))
      [] call.pc = "len" -> 3 + LoopWork(Cardinality(call.vertexes))
      [] call.pc = "write" -> 2 + LoopWork(Cardinality(call.vertexes))
      [] call.pc = "assign" -> 1 + LoopWork(Cardinality(call.vertexes))
      [] call.pc = "loop" -> LoopWork(Len(call.candidates))
      [] call.pc = "check" -> LoopWork(Len(call.candidates)) - 1

RECURSIVE SumClosures(_)
SumClosures(tasks) ==
    IF tasks = <<>> THEN 0
    ELSE ClosureWork(Head(tasks)) + SumClosures(Tail(tasks))

RECURSIVE SumThreads(_)
SumThreads(ts) ==
    IF ts = {} THEN 0
    ELSE LET t == CHOOSE x \in ts : TRUE
         IN  CallWork(thread[t]) + SumClosures(spawned[t])
                 + SumThreads(ts \ {t})

\* A bound on the steps left to the exact search, the return of the scope
\* included.
SearchWork == IF phase = "search" THEN 1 + SumThreads(Threads) ELSE 0

\* Thread t can take a step: it is not waiting for the lock, and if it is
\* free there is a closure for it to start.
CanStep(t) ==
    CASE thread[t].pc = "idle" -> \E o \in Threads : spawned[o] # <<>>
      [] thread[t].pc = "entry" -> writer = {}
      [] thread[t].pc = "loop" -> thread[t].candidates = <<>> \/ writer = {}
      [] thread[t].pc = "write" -> writer = {} /\ readers = {}
      [] OTHER -> TRUE

\* C7: the exact search terminates under fair scheduling: as long as a task
\* is pending or running some thread can take a step, and every step lowers
\* SearchWork, a bound on the steps left that rests on each closure getting
\* fewer candidates than its parent had; so after finitely many steps no
\* task is pending or running and none is spawned any more.
C7_SearchTerminates ==
    /\ [](phase = "search" /\ ~ScopeComplete => \E t \in Threads : CanStep(t))
    /\ [][phase = "search" => SearchWork' < SearchWork]_vars

\* C8: when get_max_clique has taken its final snapshot, no spawned closure
\* is pending or running, and the snapshot is the best-known clique.
C8_SnapshotAfterTasks ==
    phase = "done" =>
        /\ \A t \in Threads : thread[t].pc = "idle" /\ spawned[t] = <<>>
        /\ result = max_clique

\* The greatest color of a non-empty coloring.
MaxColor(coloring) ==
    CHOOSE c \in {coloring[v] : v \in DOMAIN coloring} :
        \A v \in DOMAIN coloring : coloring[v] <= c

\* C9: greedy_coloring(S) colors exactly the vertices of S, and two distinct
\* adjacent vertices of S never get the same color.
C9_ColoringProper ==
    /\ DOMAIN colored.coloring = colored.vertexes
    /\ \A u \in colored.vertexes : \A v \in colored.vertexes :
          u # v /\ v \in adj_list[u] => colored.coloring[u] # colored.coloring[v]

\* C10: for a non-empty S, the greatest color of greedy_coloring(S) plus one
\* is at least the size of the largest clique inside S.
C10_ColorsBoundClique ==
    colored.vertexes # {} =>
        MaxColor(colored.coloring) + 1 >= CliqueNumber(colored.vertexes)

\* C11: the graph Graph::read builds has no self-loops: no vertex is in its
\* own neighbour set.
C11_NoSelfLoops ==
    \A v \in Keys : v \notin adj_list[v]

\* C12: whenever a call ends its candidate loop at the bound check, no
\* clique made of its current clique and of vertices still in its candidate
\* set (v and the candidates after it) is longer than the best-known length
\* it has just read.
C12_PruningSound ==
    \A t \in Threads :
        /\ thread[t].pc = "check"
        /\ Pruned(thread[t].current_clique, Head(thread[t].candidates)[2],
                  Len(max_clique))
        => Len(thread[t].current_clique) + CliqueNumber(thread[t].vertexes)
               <= Len(max_clique)

\* `clique` is a clique, every vertex of `cand` is adjacent to every vertex
\* of `clique`, and no vertex of `clique` is in `cand`.
Extends(clique, cand) ==
    /\ IsClique(clique)
    /\ \A i \in 1..Len(clique) :
          /\ clique[i] \notin cand
          /\ \A c \in cand : c \in Keys /\ clique[i] \in adj_list[c]

\* C13: in every state of the exact search, the current clique of every
\* task (running, or spawned and not yet started) is pairwise adjacent, every
\* vertex of its candidate set is adjacent to every vertex of its clique, and
\* no vertex of its clique is in its candidate set.
C13_TaskInvariant ==
    phase = "search" =>
        \A t \in Threads :
            /\ thread[t].pc # "idle" =>
                   Extends(thread[t].current_clique, thread[t].vertexes)
            /\ \A i \in 1..Len(spawned[t]) :
                   Extends(Append(spawned[t][i].cur_clique, spawned[t][i].v),
                           spawned[t][i].neighbours)

\* The vertices of the candidates a call has not processed yet.
Remaining(call) == {call.candidates[i][1] : i \in 1..Len(call.candidates)}

\* C14: the closure a call spawns for v gets the neighbours of v among the
\* candidates the call has left once v and the candidates before v are
\* removed: a strict subset of the call's candidate set, without v.  The
\* call's own candidate set only ever loses vertices, so the closure's set is
\* a strict subset of the set the call started with.
C14_ChildShrinks ==
    [][\A t \in Threads :
          /\ thread[t].pc \in {"loop", "check"} /\ thread'[t].pc \in {"loop", "check"}
                => thread'[t].vertexes \subseteq thread[t].vertexes
          /\ thread[t].pc = "check" /\ Len(spawned'[t]) > Len(spawned[t])
                => LET v == Head(thread[t].candidates)[1]
                       child == Last(spawned'[t])
                   IN  /\ child.v = v
                       /\ thread[t].vertexes = Remaining(thread[t])
                       /\ v \in thread[t].vertexes
                       /\ child.neighbours
                              = adj_list[v] \cap (Remaining(thread'[t]))
                       /\ child.neighbours \subseteq thread[t].vertexes
                       /\ child.neighbours # thread[t].vertexes
                       /\ v \notin child.neighbours]_vars

\* C15: whenever max_clique_heuristic is about to skip the seed it pops
\* (its degree does not exceed the length of the best clique so far), no
\* clique that contains the seed is longer than the best clique so far.
C15_SkippedSeedCannotImprove ==
    phase = "heuristic" /\ hpc = "loop" /\ queue # {} =>
        LET node == HeapTop(queue)
        IN  ~(degree(node) > Len(data.max_clique) % 65536) =>
                1 + CliqueNumber(neighbours(node) \ {node})
                    <= Len(data.max_clique)

\* The candidates that the degree test of clique_heuristic discards when
\* best_vertex is chosen.
Discarded(vertexes, best_vertex) ==
    subgraph_neighbours(vertexes, best_vertex)
        \ HeuristicNeighbours(vertexes, best_vertex)

\* C16: in clique_heuristic, a candidate is discarded by the degree test
\* only if its degree is below the length of the best clique so far, and a
\* candidate so discarded lies in no clique longer than the best clique so
\* far.
C16_DiscardedCannotImprove ==
    phase = "heuristic" /\ hpc = "call" /\ Last(hcalls) # {} =>
        \A best_vertex \in BestVertexes(Last(hcalls)) :
            \A n \in Discarded(Last(hcalls), best_vertex) :
                /\ degree(n) < Len(data.max_clique)
                /\ 1 + CliqueNumber(neighbours(n) \ {n}) <= Len(data.max_clique)

\* C17: a step of the call that thread t runs leaves the graph alone, and
\* with it the clique and the vertex set of the call of every other thread
\* and of every closure spawned before the step.
C17_StepFrame ==
    [][\A t \in Threads :
          thread[t].pc \notin {"idle"} /\ thread'[t] # thread[t] =>
              /\ adj_list' = adj_list
              /\ \A o \in Threads \ {t} :
                    /\ thread'[o].current_clique = thread[o].current_clique
                    /\ thread'[o].vertexes = thread[o].vertexes
              /\ \A o \in Threads : \A i \in 1..Len(spawned[o]) :
                    /\ i <= Len(spawned'[o])
                    /\ spawned'[o][i] = spawned[o][i]]_vars

\* C18: a thread that asks for the write guard holds no guard, a thread
\* between two statements that use the lock (before the entry block, between
\* loop iterations, or free) holds no guard, a thread holds no guard once it
\* has spawned a closure, and the lock is held by readers or by one writer;
\* hence, whenever some call is running, some running call can take a step.
C18_NoLockDeadlock ==
    /\ [](\A t \in Threads :
             /\ thread[t].pc \in {"idle", "entry", "loop", "write"}
                    => t \notin readers /\ t \notin writer
             /\ thread[t].pc \in {"len", "check"} => t \in readers
             /\ thread[t].pc = "assign" => writer = {t})
    /\ [](Cardinality(writer) <= 1 /\ (writer # {} => readers = {}))
    /\ [][\A t \in Threads :
             Len(spawned'[t]) > Len(spawned[t])
                 => t \notin readers' /\ t \notin writer']_vars
    /\ []((\E t \in Threads : thread[t].pc # "idle")
             => \E t \in Threads : thread[t].pc # "idle" /\ CanStep(t))

\* C19: the heuristic terminates: every nested call of clique_heuristic has
\* a candidate set strictly smaller than the set of its caller, the stack of
\* calls never runs out, and max_clique_heuristic has returned with an empty
\* current_clique when the exact search starts.
C19_HeuristicTerminates ==
    /\ phase # "overflow"
    /\ \A i \in 1..(Len(hcalls) - 1) :
          hcalls[i + 1] \subseteq hcalls[i] /\ hcalls[i + 1] # hcalls[i]
    /\ phase \in {"search", "done"} => data.current_clique = <<>>

\* ---------------------------------------------------------------- witnesses

\* A task of the exact search has overwritten the clique of the heuristic.
C2_Witness ==
    /\ phase = "search"
    /\ Len(max_clique) > heuristic_best
    /\ heuristic_best >= 2

\* A call has returned a clique longer than the clique of the heuristic.
C5_Witness ==
    /\ phase = "done"
    /\ Len(result) > heuristic_best
    /\ heuristic_best > 0

\* A search that spawned closures and wrote the best-known clique has ended.
C7_Witness ==
    /\ phase = "done"
    /\ ScopeComplete
    /\ result # data.max_clique

\* The snapshot has been taken after a search whose closures found the
\* maximum clique.
C8_Witness ==
    /\ phase = "done"
    /\ Len(result) = 5
    /\ heuristic_best = 3

\* A subset with a triangle has been colored.
C9_Witness ==
    /\ Cardinality(colored.vertexes) >= 4
    /\ \E u \in colored.vertexes : \E v \in colored.vertexes :
          \E w \in colored.vertexes :
              /\ u # v /\ v # w /\ u # w
              /\ v \in adj_list[u] /\ w \in adj_list[v] /\ u \in adj_list[w]

\* A subset has been colored with more colors than its largest clique has
\* vertices.
C10_Witness ==
    /\ colored.vertexes # {}
    /\ MaxColor(colored.coloring) + 1 > CliqueNumber(colored.vertexes)
    /\ CliqueNumber(colored.vertexes) >= 2

\* A call with a non-empty clique is about to end its loop at the bound
\* check with an edge left among its candidates.
C12_Witness ==
    \E t \in Threads :
        /\ thread[t].pc = "check"
        /\ Pruned(thread[t].current_clique, Head(thread[t].candidates)[2],
                  Len(max_clique))
        /\ thread[t].current_clique # <<>>
        /\ CliqueNumber(thread[t].vertexes) >= 2

\* A task with three vertices in its clique still has a candidate while
\* another closure waits to be started.
C13_Witness ==
    /\ phase = "search"
    /\ \E t \in Threads :
          /\ thread[t].pc = "loop"
          /\ Len(thread[t].current_clique) >= 3
          /\ thread[t].vertexes # {}
    /\ \E t \in Threads : spawned[t] # <<>>

\* A call has spawned a closure with candidates of its own and has
\* candidates left to go on with.
C14_Witness ==
    \E t \in Threads :
        /\ thread[t].pc = "loop"
        /\ thread[t].candidates # <<>>
        /\ spawned[t] # <<>>
        /\ Last(spawned[t]).cur_clique = thread[t].current_clique
        /\ Cardinality(Last(spawned[t]).neighbours) >= 2

\* clique_heuristic is about to discard one neighbour of best_vertex and to
\* keep another.
C16_Witness ==
    /\ phase = "heuristic"
    /\ hpc = "call"
    /\ Last(hcalls) # {}
    /\ \E best_vertex \in BestVertexes(Last(hcalls)) :
          /\ Discarded(Last(hcalls), best_vertex) # {}
          /\ HeuristicNeighbours(Last(hcalls), best_vertex) # {}

\* A call has spawned a second closure while its first closure is pending
\* and another thread runs a call with candidates of its own.
C17_Witness ==
    \E t \in Threads : \E o \in Threads \ {t} :
        /\ thread[t].pc = "loop"
        /\ Len(spawned[t]) >= 2
        /\ thread[o].pc \in {"loop", "check"}
        /\ thread[o].vertexes # {}
        /\ thread[o].current_clique # <<>>

\* A thread asks for the write guard while another thread holds a read
\* guard.
C18_Witness ==
    \E t \in Threads : \E o \in Threads \ {t} :
        /\ thread[t].pc = "write"
        /\ o \in readers
        /\ t \notin readers

====
